---- MODULE Spec2Model ----
(***************************************************************************)
(* Model of the crossword relay: the framed transport (send / recv /       *)
(* _recv), the server (SocketServer / CrosswordServer with one accept      *)
(* thread, one receive thread per SocketHandler and one dispatch loop) and *)
(* the client connection (SocketConnection).                               *)
(*                                                                         *)
(* Threads interleave between Python statements; each action below is one  *)
(* statement (or one loop iteration) of one thread.                        *)
(***************************************************************************)
EXTENDS Integers, Sequences, FiniteSets, TLC

\* ------------------------------------------------------------------ bounds
MaxConn == 2        \* connections that ever reach the server
MaxEmit == 2        \* events one client emits on its connection
MaxFail == 1        \* sends the environment lets fail on a socket whose
                    \* peer is gone

MaxClose == 1       \* client processes that end while the server runs

MaxPayload == 2     \* N: the longest payload handed to send
MaxFrames == 2      \* payloads sent back to back on one stream

MaxW == 2           \* widest grid handed to the graph construction
MaxH == 2           \* tallest grid handed to the graph construction
MaxLen == 2         \* longest clue span of the numbering
MaxClues == 2       \* clues per direction of the numbering
MaxDist == 2        \* largest distance handed to move_cell
NavW == 3           \* widest grid the cursor is moved on
NavH == 2           \* tallest grid the cursor is moved on
MaxCount == 4       \* largest count handed to move_word
MaxLetters == 2     \* most letters typed into one cell

Conn == 1..MaxConn

\* thread identities: the accept thread, one receive thread per handler
\* (named by the connection), the dispatch thread (the caller of start())
AcceptT == 0
DispatchT == MaxConn + 1
Threads == 0..(MaxConn + 1)

\* ------------------------------------------------------ event vocabulary
CLIENT_JOINED == "CLIENT_JOINED"
CLIENT_EXITED == "CLIENT_EXITED"
ID_ASSIGNED == "ID_ASSIGNED"
PUZZLE_LOADED == "PUZZLE_LOADED"
ECHO == "echo"

\* cell kinds and word directions
LETTER == "LETTER"
EMPTY == "EMPTY"
ACROSS == "ACROSS"
DOWN == "DOWN"

VARIABLES
    peer,        \* [Conn -> "idle" | "open" | "stopped" | "closed"]: the
                 \* client: not connected, connected, after
                 \* SocketConnection.stop(), process ended
    nemit,       \* [Conn -> Nat]: events the client has emitted
    wire,        \* [Conn -> Seq(frame)]: client-to-server frames in flight
    sent,        \* [Conn -> Seq(msg)]: what the server wrote to the socket
    alive,       \* [Conn -> BOOLEAN]: SocketHandler.alive
    sockClosed,  \* [Conn -> BOOLEAN]: the server-side socket was close()d
    salive,      \* SocketServer.alive
    handlers,    \* SocketServer.handlers (the roster)
    queue,       \* SocketServer.queue
    th,          \* [Threads -> frame]: position and locals of every thread
    pname,       \* [Conn -> Nat]: handler.model.name / color (0 = "")
    smodel,      \* CrosswordServer.model ("None" or "loaded")
    fails,       \* send failures the environment has produced so far
    dlog,        \* history: [Conn -> Seq] data of the items the dispatch
                 \* loop popped, per connection, in order
    stopped,     \* history: [Conn -> BOOLEAN] a stop() of the handler returned
    dsnap        \* history: the roster when the running bound function began

\* the framed transport, on one byte stream of its own
VARIABLES
    fstream,     \* bytes written by sendall and not yet read
    fclosed,     \* the sending side has closed the stream
    fsent,       \* history: the payloads passed to send, in order
    frcvd,       \* the payloads recv has returned, in order
    fphase,      \* where recv is: "size" | "body" | "failed"
    fsize,       \* recv: size, once unpacked
    fbuf,        \* _recv: message
    fpartial,    \* history: some sock.recv returned less than it was asked
    fimpl        \* which receiver reads the stream: "recv" (network.py) or
                 \* "receive_all" (new.py)

\* the client application (Controller) of each connection
VARIABLES
    cread,       \* [Conn -> Nat]: messages of sent[c] that the client's
                 \* receive loop has taken from its socket
    cq,          \* [Conn -> Seq(msg)]: Controller.queue
    players,     \* [Conn -> Seq([name, id])]: Controller.players
    clog         \* history: [Conn -> Seq] the events update popped, each
                 \* with the function it was passed to ("None": no binding)

syncVars == <<cread, cq, players, clog>>

\* the puzzle graph (PuzzleModel: CellsAccess, WordsAccess); cells are
\* named by their index y*width + x in CellsAccess.cells
VARIABLES
    gw, gh,      \* puzzle.width, puzzle.height (0: no puzzle)
    gfill,       \* [cell -> kind]: puzzle.fill, cell.kind
    gacross,     \* numbering.across: Seq([cell, len, num])
    gdown,       \* numbering.down
    gstatus,     \* "none" | "new" (decoded, not built) | "built" | "error"
    gwordA,      \* [cell -> Nat]: cell.word.across as an index into
                 \* words.across (0: None)
    gwordD,      \* [cell -> Nat]: cell.word.down
    gnumber,     \* [cell -> Nat]: cell.number (0: "")
    gcellsA,     \* Seq(Seq(cell)): word.cells of each across word
    gcellsD,     \* Seq(Seq(cell)): word.cells of each down word
    gletters,    \* [cell -> Seq(char)]: cell.letters
    gowner       \* [cell -> 0..1]: cell.owner (0: None, 1: players[0])

graphVars == <<gw, gh, gfill, gacross, gdown, gstatus, gwordA, gwordD,
               gnumber, gcellsA, gcellsD, gletters, gowner>>

\* The cursor of the local player (PuzzleController and players[0])
VARIABLES
    px,         \* players[0].x
    py,         \* players[0].y
    pdir,       \* players[0].direction
    current,    \* PuzzleController.current: a cell index, -1 for None
    nlast,      \* the last cursor operation called, the cell and direction
                \* it started from and the error it raised
    nrun,       \* the move_word(1) calls made in a row and the word the
                \* first of them started from
    gattrs      \* the attributes of cells and words that the operations
                \* called since construction have assigned

navVars == <<px, py, pdir, current, nlast, nrun, gattrs>>

\* move_cell, statement by statement
VARIABLES
    mpc,        \* "idle" | "outer" (loop test) | "inner" (bounds test) |
                \* "select" (set_cell)
    mx, my,     \* the locals x, y
    mdist,      \* the local distance
    mabs,       \* the argument absolute
    mk,         \* the argument distance
    msteps,     \* advances made by the outer loop in this call
    mfix        \* bounding rules applied by the inner loop since the
                \* last advance

loopVars == <<mpc, mx, my, mdist, mabs, mk, msteps, mfix>>

\* The board of the single-window player (new.py)
VARIABLES
    bstatus,    \* "none" | "built" | "error" (build_application raised)
    bcells      \* [<<x, y>> -> [type, number]]: Board.cells[y][x], with
                \* type "None" where no Cell was stored

boardVars == <<bstatus, bcells>>

puzzleVars == <<graphVars, navVars, loopVars, boardVars>>

frameVars == <<fstream, fclosed, fsent, frcvd, fphase, fsize, fbuf, fpartial,
               fimpl>>

netVars == <<peer, nemit, wire, sent, alive, sockClosed, salive, handlers,
             queue, th, pname, smodel, fails, dlog, stopped, dsnap>>

\* everything but the relay / everything but the framed transport
restVars == <<frameVars, syncVars, puzzleVars>>
nonFrameVars == <<netVars, syncVars, puzzleVars>>
nonSyncVars == <<frameVars, puzzleVars>>
nonPuzzleVars == <<netVars, frameVars, syncVars, loopVars, boardVars>>
nonCursorVars == <<netVars, frameVars, syncVars, graphVars, boardVars>>

vars == <<netVars, frameVars, syncVars, puzzleVars>>

\* ---------------------------------------------------------------- helpers
Range(s) == {s[k] : k \in 1..Len(s)}

Remove(s, x) == SelectSeq(s, LAMBDA e : e # x)

NoItem == [event |-> "", data |-> 0, handler |-> 0]

\* a thread's position and locals: pc, the handler being stopped (h), the
\* loop indices of SocketServer.stop (i) and SocketServer.emit (j), the
\* item being dispatched (cur); act is history: the connections that were
\* alive when the running stop() began its broadcast
Frame(p) == [pc |-> p, h |-> 0, i |-> 0, j |-> 0, cur |-> NoItem, act |-> {}]

Msg(e, d, b) == [event |-> e, data |-> d, by |-> b]

\* the n-th event a client emits: Controller.__init__ emits CLIENT_JOINED
\* first; the client that loaded a puzzle then pushes PUZZLE_LOADED
EventOf(n) ==
    IF n = 1 THEN CLIENT_JOINED
    ELSE IF n <= MaxEmit THEN PUZZLE_LOADED
    ELSE CLIENT_EXITED

EmittedFrame(n) == [event |-> EventOf(n), data |-> n]

\* everything connection c has emitted so far, in order
Emitted(c) == [n \in 1..nemit[c] |-> EmittedFrame(n)]

\* variant: an event without a binding is passed to on_client_joined
BindingsAll(event) ==
    CASE event = ECHO -> "echo"
      [] event = PUZZLE_LOADED -> "on_puzzle_loaded"
      [] OTHER -> "on_client_joined"

\* SocketServer.bindings after CrosswordServer.__init__
Bindings(event) ==
    CASE event = ECHO -> "echo"
      [] event = PUZZLE_LOADED -> "on_puzzle_loaded"
      [] event = CLIENT_JOINED -> "on_client_joined"
      [] OTHER -> "None"

\* queue.Queue: put at the tail, get from the head
QueuePut(q, item) == Append(q, item)

\* variants of get: one that leaves the item on the queue, one that takes
\* the newest item
QueueGetKeep(q) == [item |-> Head(q), rest |-> q]
QueueGetLast(q) == [item |-> q[Len(q)], rest |-> SubSeq(q, 1, Len(q) - 1)]

QueueGet(q) == [item |-> Head(q), rest |-> Tail(q)]

\* SocketServer.emit: handlers = handlers or self.handlers
EmitList(args) == IF args = <<>> THEN handlers ELSE args

\* variant: the join broadcast names every handler but the joining one
JoinedArgsOthers(h) == SelectSeq(handlers, LAMBDA x : x # h)

\* the *handlers that on_client_joined and SocketHandler.stop pass to emit
JoinedArgs(h) == <<>>
ExitedArgs(h) == <<>>

\* outcomes of sock.sendall on the server-side socket of connection c
SendOutcomes(c) ==
    IF sockClosed[c] THEN {"raise"}
    ELSE IF peer[c] = "closed" /\ fails < MaxFail THEN {"ok", "raise"}
    ELSE {"ok"}

HandlerPcs == {"h_loaded", "h_joined", "h_joined_emit"}

\* where control goes when a bound function raises in thread t
\* (SocketServer.receive: except -> self.stop()); cur is kept as history
Raised(t) == [Frame("ss_alive") EXCEPT !.cur = th[t].cur]

\* SocketServer.start runs the dispatch loop in the calling thread; the
\* accept and receive threads are daemon threads (daemon=True), so the run
\* ends when the dispatch loop has returned or raised
Running == th[DispatchT].pc \notin {"done", "dead"}

\* ------------------------------------------------------------------- Init
NetInit ==
    /\ peer = [c \in Conn |-> "idle"]
    /\ nemit = [c \in Conn |-> 0]
    /\ wire = [c \in Conn |-> <<>>]
    /\ sent = [c \in Conn |-> <<>>]
    /\ alive = [c \in Conn |-> FALSE]
    /\ sockClosed = [c \in Conn |-> FALSE]
    /\ salive = TRUE
    /\ handlers = <<>>
    /\ queue = <<>>
    /\ th = [t \in Threads |->
               IF t \in Conn THEN Frame("idle")
               ELSE Frame(IF t = AcceptT THEN "accept" ELSE "get")]
    /\ pname = [c \in Conn |-> 0]
    /\ smodel = "None"
    /\ fails = 0
    /\ dlog = [c \in Conn |-> <<>>]
    /\ stopped = [c \in Conn |-> FALSE]
    /\ dsnap = <<>>

FrameStart ==
    /\ fstream = <<>>
    /\ fclosed = FALSE
    /\ fsent = <<>>
    /\ frcvd = <<>>
    /\ fphase = "size"
    /\ fsize = 0
    /\ fbuf = <<>>
    /\ fpartial = FALSE

\* the stream is read by recv of network.py
FrameInit == FrameStart /\ fimpl = "recv"

\* the stream is read by recv of network.py or by receive_all of new.py
FrameInitAny == FrameStart /\ fimpl \in {"recv", "receive_all"}

\* no Controller exists before its client joins
SyncInit ==
    /\ cread = [c \in Conn |-> 0]
    /\ cq = [c \in Conn |-> <<>>]
    /\ players = [c \in Conn |-> <<>>]
    /\ clog = [c \in Conn |-> <<>>]

\* Controller.model = None, CrosswordServer.model = None: no puzzle graph
GraphNone ==
    /\ gw = 0
    /\ gh = 0
    /\ gfill = <<>>
    /\ gacross = <<>>
    /\ gdown = <<>>
    /\ gstatus = "none"
    /\ gwordA = <<>>
    /\ gwordD = <<>>
    /\ gnumber = <<>>
    /\ gcellsA = <<>>
    /\ gcellsD = <<>>
    /\ gletters = <<>>
    /\ gowner = <<>>

\* no move_word(1) has been called since another operation
NoRun == [w |-> 0, n |-> 0]

\* no call of move_cell is running
LoopStart ==
    /\ mpc = "idle"
    /\ mx = 0
    /\ my = 0
    /\ mdist = 0
    /\ mabs = FALSE
    /\ mk = 0
    /\ msteps = 0
    /\ mfix = 0

\* no board has been built
BoardStart ==
    /\ bstatus = "none"
    /\ bcells = <<>>

\* PlayerModel.__init__, PuzzleController.__init__
NavStart ==
    /\ LoopStart
    /\ BoardStart
    /\ px = 0
    /\ py = 0
    /\ pdir = ACROSS
    /\ current = 0 - 1
    /\ nlast = [op |-> "none", k |-> 0, abs |-> FALSE, from |-> 0 - 1,
                dir |-> ACROSS, err |-> "none"]
    /\ nrun = NoRun
    /\ gattrs = {}

PuzzleNone == GraphNone /\ NavStart

Init == NetInit /\ FrameInit /\ SyncInit /\ PuzzleNone

\* ------------------------------------------------------------ the clients
\* Controller.__init__: CrosswordConnection(address) connects (the kernel
\* completes the connection in the listen backlog), connection.start(),
\* connection.emit(CLIENT_JOINED, {name, color}).  Connections are numbered
\* in the order in which they connect.
ClientConnect(c) ==
    /\ Running
    /\ peer[c] = "idle"
    /\ IF c = 1 THEN TRUE ELSE peer[c - 1] # "idle"
    /\ peer' = [peer EXCEPT ![c] = "open"]
    /\ nemit' = [nemit EXCEPT ![c] = 1]
    /\ wire' = [wire EXCEPT ![c] = <<EmittedFrame(1)>>]
    /\ UNCHANGED <<restVars, sent, alive, sockClosed, salive, handlers, queue, th,
                   pname, smodel, fails, dlog, stopped, dsnap>>

\* SocketConnection.emit: send(self.sock, pickle.dumps((event, data)))
ClientEmit(c) ==
    /\ Running
    /\ peer[c] = "open"
    /\ nemit[c] < MaxEmit
    /\ wire' = [wire EXCEPT ![c] = Append(@, EmittedFrame(nemit[c] + 1))]
    /\ nemit' = [nemit EXCEPT ![c] = @ + 1]
    /\ UNCHANGED <<restVars, peer, sent, alive, sockClosed, salive, handlers, queue,
                   th, pname, smodel, fails, dlog, stopped, dsnap>>

\* Controller.main: self.connection.stop() once the window is closed;
\* SocketConnection.stop: self.alive = False
ClientStop(c) ==
    /\ Running
    /\ peer[c] = "open"
    /\ Cardinality({d \in Conn : peer[d] \in {"stopped", "closed"}}) < MaxClose
    /\ peer' = [peer EXCEPT ![c] = "stopped"]
    /\ UNCHANGED <<restVars, nemit, wire, sent, alive, sockClosed, salive, handlers,
                   queue, th, pname, smodel, fails, dlog, stopped, dsnap>>

\* the client process ends (main returns, or the process is killed): its
\* socket is closed by the system
ClientClose(c) ==
    /\ Running
    /\ peer[c] \in {"open", "stopped"}
    /\ Cardinality({d \in Conn : peer[d] \in {"stopped", "closed"} /\ d # c})
         < MaxClose
    /\ peer' = [peer EXCEPT ![c] = "closed"]
    /\ UNCHANGED <<restVars, nemit, wire, sent, alive, sockClosed, salive, handlers,
                   queue, th, pname, smodel, fails, dlog, stopped, dsnap>>

\* ------------------------------------------------------- thread plumbing
envVars == <<peer, nemit>>

SetTh(t, f) == th' = [th EXCEPT ![t] = f]

\* the blocking call at the top of each thread's loop
LoopBody(t) ==
    CASE t = AcceptT -> "accept"
      [] t = DispatchT -> "get"
      [] OTHER -> "recv"

\* `while self.alive:` of SocketHandler.receive, SocketServer.accept and
\* SocketServer.receive, evaluated as the iteration before it ends: the
\* thread goes on to its blocking call, or leaves the loop
Again(t, flag) == IF flag THEN LoopBody(t) ELSE "done"

\* one sock.sendall of message m to the socket of connection c, outcome o
SendTo(c, m, o) ==
    /\ sent' = IF o = "ok" THEN [sent EXCEPT ![c] = Append(@, m)] ELSE sent
    /\ fails' = IF o = "raise" /\ ~sockClosed[c] THEN fails + 1 ELSE fails

\* ------------------------------------------------------ the accept thread
\* SocketServer.accept: sock, address = self.sock.accept();
\* handler = self.handler(sock, address, self)
AcceptConn(c) ==
    /\ Running
    /\ th[AcceptT].pc = "accept"
    /\ peer[c] # "idle"
    /\ th[c].pc = "idle"
    /\ SetTh(AcceptT, [Frame("start") EXCEPT !.h = c])
    /\ UNCHANGED <<restVars, envVars, wire, sent, alive, sockClosed, salive, handlers,
                   queue, pname, smodel, fails, dlog, stopped, dsnap>>

\* SocketHandler.start: self.alive = True; self._receive.start()
HandlerStart ==
    /\ Running
    /\ th[AcceptT].pc = "start"
    /\ alive' = [alive EXCEPT ![th[AcceptT].h] = TRUE]
    /\ th' = [th EXCEPT ![AcceptT].pc = "append",
                        ![th[AcceptT].h] = Frame("recv")]
    /\ UNCHANGED <<restVars, envVars, wire, sent, sockClosed, salive, handlers, queue,
                   pname, smodel, fails, dlog, stopped, dsnap>>

\* SocketServer.accept: self.handlers.append(handler)
RosterAppend ==
    /\ Running
    /\ th[AcceptT].pc = "append"
    /\ handlers' = Append(handlers, th[AcceptT].h)
    /\ SetTh(AcceptT, Frame(Again(AcceptT, salive)))
    /\ UNCHANGED <<restVars, envVars, wire, sent, alive, sockClosed, salive, queue,
                   pname, smodel, fails, dlog, stopped, dsnap>>

\* ---------------------------------------------------- the receive threads
\* SocketHandler.receive: event, data = pickle.loads(recv(self.sock));
\* self.server.queue.put((event, data, self))
HandlerRecv(c) ==
    /\ Running
    /\ th[c].pc = "recv"
    /\ wire[c] # <<>>
    /\ queue' = QueuePut(queue, [event |-> Head(wire[c]).event,
                                 data |-> Head(wire[c]).data, handler |-> c])
    /\ wire' = [wire EXCEPT ![c] = Tail(@)]
    /\ SetTh(c, Frame(Again(c, alive[c])))
    /\ UNCHANGED <<restVars, envVars, sent, alive, sockClosed, salive, handlers,
                   pname, smodel, fails, dlog, stopped, dsnap>>

\* _recv: sock.recv returns b'' -> sock.close(); raise OSError;
\* SocketHandler.receive: except -> self.stop()
HandlerRecvFail(c) ==
    /\ Running
    /\ th[c].pc = "recv"
    /\ wire[c] = <<>>
    /\ peer[c] = "closed"
    /\ sockClosed' = [sockClosed EXCEPT ![c] = TRUE]
    /\ SetTh(c, [Frame("hs_alive") EXCEPT !.h = c])
    /\ UNCHANGED <<restVars, envVars, wire, sent, alive, salive, handlers, queue,
                   pname, smodel, fails, dlog, stopped, dsnap>>

\* ------------------------------------------------ SocketHandler.stop, by t
\* self.alive = False;
\* if self in self.server.handlers: self.server.handlers.remove(self)
StopRemove(t) ==
    /\ Running
    /\ th[t].pc = "hs_alive"
    /\ alive' = [alive EXCEPT ![th[t].h] = FALSE]
    /\ handlers' = IF th[t].h \in Range(handlers)
                   THEN Remove(handlers, th[t].h) ELSE handlers
    /\ SetTh(t, [th[t] EXCEPT !.pc = "hs_emit", !.j = 0,
                               !.act = {c \in Conn : alive'[c]}])
    /\ UNCHANGED <<restVars, envVars, wire, sent, sockClosed, salive, queue, pname,
                   smodel, fails, dlog, stopped, dsnap>>

\* where SocketHandler.stop returns to: the receive loop, or the for loop
\* of SocketServer.stop
StopReturn(t) == IF t \in Conn THEN Again(t, alive[t]) ELSE "ss_loop"

\* self.server.emit(CLIENT_EXITED, ""): one iteration of
\* `for handler in handlers: handler.emit(event, data)`, or its end
StopEmit(t) ==
    /\ Running
    /\ th[t].pc = "hs_emit"
    /\ LET list == EmitList(ExitedArgs(th[t].h)) IN
       IF th[t].j < Len(list)
       THEN \E o \in SendOutcomes(list[th[t].j + 1]) :
              /\ SendTo(list[th[t].j + 1], Msg(CLIENT_EXITED, 0, th[t].h), o)
              /\ SetTh(t, IF o = "ok" THEN [th[t] EXCEPT !.j = @ + 1]
                          ELSE [Frame("dead") EXCEPT !.cur = th[t].cur])
              /\ UNCHANGED stopped
       ELSE /\ stopped' = [stopped EXCEPT ![th[t].h] = TRUE]
            /\ SetTh(t, [th[t] EXCEPT !.pc = StopReturn(t), !.h = 0, !.j = 0,
                                       !.act = {}])
            /\ UNCHANGED <<sent, fails>>
    /\ UNCHANGED <<restVars, envVars, wire, alive, sockClosed, salive, handlers,
                   queue, pname, smodel, dlog, dsnap>>

\* ------------------------------------------------- SocketServer.stop, by t
\* self.alive = False
ServerStopAlive(t) ==
    /\ Running
    /\ th[t].pc = "ss_alive"
    /\ salive' = FALSE
    /\ dsnap' = <<>>
    /\ SetTh(t, [th[t] EXCEPT !.pc = "ss_loop", !.i = 0])
    /\ UNCHANGED <<restVars, envVars, wire, sent, alive, sockClosed, handlers, queue,
                   pname, smodel, fails, dlog, stopped>>

\* for handler in self.handlers: handler.stop()
ServerStopLoop(t) ==
    /\ Running
    /\ th[t].pc = "ss_loop"
    /\ SetTh(t, IF th[t].i < Len(handlers)
                THEN [th[t] EXCEPT !.pc = "hs_alive",
                                   !.h = handlers[th[t].i + 1], !.i = @ + 1]
                ELSE [th[t] EXCEPT !.pc = Again(t, salive), !.i = 0])
    /\ UNCHANGED <<restVars, envVars, wire, sent, alive, sockClosed, salive, handlers,
                   queue, pname, smodel, fails, dlog, stopped, dsnap>>

\* ---------------------------------------------------- the dispatch thread
HandlerPc(fn) ==
    CASE fn = "on_puzzle_loaded" -> "h_loaded"
      [] fn = "on_client_joined" -> "h_joined"
      [] OTHER -> "print"

\* SocketServer.receive: event, data, handler = self.queue.get();
\* function = self.bindings.get(event); function(data, handler)
Dispatch(t) ==
    /\ Running
    /\ th[t].pc = "get"
    /\ queue # <<>>
    /\ LET g == QueueGet(queue) IN
         /\ queue' = g.rest
         /\ dlog' = [dlog EXCEPT ![g.item.handler] = Append(@, g.item.data)]
         /\ SetTh(t, IF Bindings(g.item.event) = "None"
                     THEN Frame(Again(t, salive))
                     ELSE [Frame(HandlerPc(Bindings(g.item.event)))
                             EXCEPT !.cur = g.item])
    /\ dsnap' = handlers
    /\ UNCHANGED <<restVars, envVars, wire, sent, alive, sockClosed, salive, handlers,
                   pname, smodel, fails, stopped>>

\* CrosswordServer.on_puzzle_loaded: the puzzle is stored and decoded
\* (self.model is set), or open / write / puz.read raises
PuzzleLoaded(t) ==
    /\ Running
    /\ th[t].pc = "h_loaded"
    /\ \E ok \in BOOLEAN :
         /\ smodel' = IF ok THEN "loaded" ELSE smodel
         /\ SetTh(t, IF ok THEN Frame(Again(t, salive)) ELSE Raised(t))
    /\ dsnap' = <<>>
    /\ UNCHANGED <<restVars, envVars, wire, sent, alive, sockClosed, salive, handlers,
                   queue, pname, fails, dlog, stopped>>

\* CrosswordHandler.id = id(self)
HandlerId(c) == c

\* CrosswordServer.on_client_joined: handler.model.name / color = data[..];
\* data["id"] = handler.id; handler.emit(ID_ASSIGNED, handler.id)
Joined(t) ==
    /\ Running
    /\ th[t].pc = "h_joined"
    /\ pname' = [pname EXCEPT ![th[t].cur.handler] = th[t].cur.handler]
    /\ \E o \in SendOutcomes(th[t].cur.handler) :
         /\ SendTo(th[t].cur.handler,
                   Msg(ID_ASSIGNED, HandlerId(th[t].cur.handler),
                       th[t].cur.handler), o)
         /\ SetTh(t, IF o = "ok" THEN [th[t] EXCEPT !.pc = "h_joined_emit"]
                     ELSE Raised(t))
    /\ UNCHANGED <<restVars, envVars, wire, alive, sockClosed, salive, handlers,
                   queue, smodel, dlog, stopped, dsnap>>

\* CrosswordServer.on_client_joined: self.emit(CLIENT_JOINED, data), one
\* iteration of the for loop of SocketServer.emit, or its end
JoinedEmit(t) ==
    /\ Running
    /\ th[t].pc = "h_joined_emit"
    /\ LET list == EmitList(JoinedArgs(th[t].cur.handler)) IN
       IF th[t].j < Len(list)
       THEN \E o \in SendOutcomes(list[th[t].j + 1]) :
              /\ SendTo(list[th[t].j + 1],
                        Msg(CLIENT_JOINED, HandlerId(th[t].cur.handler),
                            th[t].cur.handler), o)
              /\ SetTh(t, IF o = "ok" THEN [th[t] EXCEPT !.j = @ + 1]
                          ELSE Raised(t))
              /\ UNCHANGED dsnap
       ELSE /\ SetTh(t, Frame(Again(t, salive)))
            /\ dsnap' = <<>>
            /\ UNCHANGED <<sent, fails>>
    /\ UNCHANGED <<restVars, envVars, wire, alive, sockClosed, salive, handlers,
                   queue, pname, smodel, dlog, stopped>>

\* ------------------------------------------------------------------- Next
Next ==
    \/ \E c \in Conn : ClientConnect(c)
    \/ \E c \in Conn : ClientEmit(c)
    \/ \E c \in Conn : ClientStop(c)
    \/ \E c \in Conn : ClientClose(c)
    \/ \E c \in Conn : AcceptConn(c)
    \/ HandlerStart
    \/ RosterAppend
    \/ \E c \in Conn : HandlerRecv(c)
    \/ \E c \in Conn : HandlerRecvFail(c)
    \/ \E t \in Threads : StopRemove(t)
    \/ \E t \in Threads : StopEmit(t)
    \/ \E t \in Threads : ServerStopAlive(t)
    \/ \E t \in Threads : ServerStopLoop(t)
    \/ \E t \in Threads : Dispatch(t)
    \/ \E t \in Threads : PuzzleLoaded(t)
    \/ \E t \in Threads : Joined(t)
    \/ \E t \in Threads : JoinedEmit(t)

Spec == Init /\ [][Next]_vars

\* Controller.__init__: players = [PlayerModel(...)], the connection is
\* made and started, connection.emit(CLIENT_JOINED, {name, color})
ControllerInit(c) ==
    /\ Running
    /\ peer[c] = "idle"
    /\ IF c = 1 THEN TRUE ELSE peer[c - 1] # "idle"
    /\ peer' = [peer EXCEPT ![c] = "open"]
    /\ nemit' = [nemit EXCEPT ![c] = 1]
    /\ wire' = [wire EXCEPT ![c] = <<EmittedFrame(1)>>]
    /\ players' = [players EXCEPT ![c] = <<[name |-> c, id |-> 0]>>]
    /\ UNCHANGED <<nonSyncVars, cread, cq, clog, sent, alive, sockClosed,
                   salive, handlers, queue, th, pname, smodel, fails, dlog,
                   stopped, dsnap>>

\* SocketConnection.emit of an event the server has no binding for, after
\* the client's other events
ClientEmitOther(c) ==
    /\ Running
    /\ peer[c] = "open"
    /\ nemit[c] = MaxEmit
    /\ wire' = [wire EXCEPT ![c] = Append(@, EmittedFrame(MaxEmit + 1))]
    /\ nemit' = [nemit EXCEPT ![c] = @ + 1]
    /\ UNCHANGED <<restVars, peer, sent, alive, sockClosed, salive, handlers,
                   queue, th, pname, smodel, fails, dlog, stopped, dsnap>>


(***************************************************************************)
(* The framed transport: send, recv, _recv over one byte stream            *)
(***************************************************************************)
\* the byte values used in payloads
ByteVals == {0, 1}

\* all payloads of length 0..MaxPayload
Payloads == UNION {[1..n -> ByteVals] : n \in 0..MaxPayload}

\* struct.pack('>I', n): four bytes, most significant first
Pack(n) ==
    <<(n \div 16777216) % 256, (n \div 65536) % 256, (n \div 256) % 256,
      n % 256>>

\* struct.unpack('>I', b)[0]
Unpack(b) == b[1] * 16777216 + b[2] * 65536 + b[3] * 256 + b[4]

\* send: message = struct.pack('>I', len(message)) + message;
\* sock.sendall(message)
FSend(p) ==
    /\ ~fclosed
    /\ Len(fsent) < MaxFrames
    /\ fstream' = fstream \o Pack(Len(p)) \o p
    /\ fsent' = Append(fsent, p)
    /\ UNCHANGED <<nonFrameVars, fclosed, frcvd, fphase, fsize, fbuf, fpartial,
                   fimpl>>

\* the sending side closes the stream
FClose ==
    /\ ~fclosed
    /\ fclosed' = TRUE
    /\ UNCHANGED <<nonFrameVars, fstream, fsent, frcvd, fphase, fsize, fbuf,
                   fpartial, fimpl>>

\* the size _recv was called with: 4 for the prefix, then the unpacked size
Target == IF fphase = "size" THEN 4 ELSE fsize

\* variant: every sock.recv asks for the whole size again
RecvArgWhole(size, message) == size

\* _recv: the argument of sock.recv(size - len(message))
RecvArg(size, message) == size - Len(message)

\* _recv: one iteration of `while len(message) < size` in which sock.recv
\* returns k bytes, at least one and at most what it was asked for
FRecvPacket(k) ==
    /\ fphase \in {"size", "body"}
    /\ Len(fbuf) < Target
    /\ k >= 1
    /\ k <= Len(fstream)
    /\ k <= RecvArg(Target, fbuf)
    /\ fbuf' = fbuf \o SubSeq(fstream, 1, k)
    /\ fstream' = SubSeq(fstream, k + 1, Len(fstream))
    /\ fpartial' = (fpartial \/ k < RecvArg(Target, fbuf))
    /\ UNCHANGED <<nonFrameVars, fclosed, fsent, frcvd, fphase, fsize, fimpl>>

\* how the receiver ends when sock.recv returns b'': _recv closes the
\* socket and raises OSError ("failed"); _receive_all returns None, and so
\* does receive_all ("none")
ClosedSignal(impl) == IF impl = "recv" THEN "failed" ELSE "none"

\* variant: at the end of the stream the bytes read so far are returned as
\* the message
FRecvEofPartial ==
    /\ fphase \in {"size", "body"}
    /\ Len(fbuf) < Target
    /\ fstream = <<>>
    /\ fclosed
    /\ Len(frcvd) < MaxFrames
    /\ frcvd' = Append(frcvd, fbuf)
    /\ fphase' = "size"
    /\ fsize' = 0
    /\ fbuf' = <<>>
    /\ UNCHANGED <<nonFrameVars, fstream, fclosed, fsent, fpartial, fimpl>>

\* _recv / _receive_all: sock.recv returns b'' (stream closed, nothing
\* left to read)
FRecvEof ==
    /\ fphase \in {"size", "body"}
    /\ Len(fbuf) < Target
    /\ fstream = <<>>
    /\ fclosed
    /\ fphase' = ClosedSignal(fimpl)
    /\ fbuf' = <<>>
    /\ UNCHANGED <<nonFrameVars, fstream, fclosed, fsent, frcvd, fsize,
                   fpartial, fimpl>>

\* _recv returns message; recv: size = struct.unpack('>I', size)[0], or
\* recv returns the payload
FRecvReturn ==
    /\ fphase \in {"size", "body"}
    /\ Len(fbuf) >= Target
    /\ IF fphase = "size"
       THEN /\ fsize' = Unpack(fbuf)
            /\ fphase' = "body"
            /\ UNCHANGED frcvd
       ELSE /\ frcvd' = Append(frcvd, fbuf)
            /\ fphase' = "size"
            /\ fsize' = 0
    /\ fbuf' = <<>>
    /\ UNCHANGED <<nonFrameVars, fstream, fclosed, fsent, fpartial, fimpl>>

NextFrame ==
    \/ \E p \in Payloads : FSend(p)
    \/ FClose
    \/ \E k \in 1..(MaxPayload + 4) : FRecvPacket(k)
    \/ FRecvEof
    \/ FRecvReturn

SpecFrame == Init /\ [][NextFrame]_vars

\* the connection breaks (the peer dies, the connection is reset): the
\* bytes after the first k unread ones never arrive, sock.recv returns b''
\* once the k bytes are read
FAbort(k) ==
    /\ ~fclosed
    /\ k < Len(fstream)
    /\ fstream' = SubSeq(fstream, 1, k)
    /\ fclosed' = TRUE
    /\ UNCHANGED <<nonFrameVars, fsent, frcvd, fphase, fsize, fbuf, fpartial,
                   fimpl>>

NextAbrupt ==
    \/ NextFrame
    \/ \E k \in 0..(MaxPayload + 4) : FAbort(k)

InitAbrupt == NetInit /\ FrameInitAny /\ SyncInit /\ PuzzleNone

SpecAbrupt == InitAbrupt /\ [][NextAbrupt]_vars

(***************************************************************************)
(* The puzzle graph: CellsAccess and WordsAccess                           *)
(***************************************************************************)
Kinds == {LETTER, EMPTY}

\* to_position(i, w): y, x = divmod(i, w)
ToPosition(i, w) == [x |-> i % w, y |-> i \div w]

\* to_index(x, y, w)
ToIndex(x, y, w) == y * w + x

\* list.__getitem__ of a list of n items: a negative index counts from
\* the end; -1 stands for IndexError
ListIndex(n, i) ==
    IF i >= 0 /\ i < n THEN i
    ELSE IF i < 0 /\ i >= 0 - n THEN n + i
    ELSE 0 - 1

\* CellsAccess.__getitem__((x, y)) on a grid of width w with n cells
CellAt(x, y, w, n) == ListIndex(n, ToIndex(x, y, w))

\* WordsAccess.__init__: linked = map(lambda j: cells[x+j, y], range(len))
LinkedAcross(info, w, n) ==
    [j \in 1..info.len |->
       CellAt(ToPosition(info.cell, w).x + (j - 1), ToPosition(info.cell, w).y,
              w, n)]

\* variant: the cells of a down word are taken along the row
LinkedDownRow(info, w, n) ==
    [j \in 1..info.len |->
       CellAt(ToPosition(info.cell, w).x + (j - 1), ToPosition(info.cell, w).y,
              w, n)]

\* WordsAccess.__init__: linked = map(lambda j: cells[x, y+j], range(len))
LinkedDown(info, w, n) ==
    [j \in 1..info.len |->
       CellAt(ToPosition(info.cell, w).x, ToPosition(info.cell, w).y + (j - 1),
              w, n)]

\* the list comprehension or word.cells[0] raises IndexError
WordRaises(linked) ==
    linked = <<>> \/ \E j \in 1..Len(linked) : linked[j] < 0

AllLinkedA(across, w, n) ==
    [k \in 1..Len(across) |-> LinkedAcross(across[k], w, n)]

AllLinkedD(down, w, n) ==
    [k \in 1..Len(down) |-> LinkedDown(down[k], w, n)]

\* the word that `for cell in linked: cell.word.<dir> = word` leaves on
\* cell i: the last word of the list that links it (0: None)
LastWord(linked, i) ==
    LET ks == {k \in 1..Len(linked) : i \in Range(linked[k])}
    IN  IF ks = {} THEN 0 ELSE CHOOSE k \in ks : \A q \in ks : q <= k

\* word.cells[0].number = word.number, across words first, then down words
NumberOf(across, la, down, ld, i) ==
    LET ds == {k \in 1..Len(ld) : ld[k][1] = i}
        as == {k \in 1..Len(la) : la[k][1] = i}
    IN  IF ds # {} THEN down[CHOOSE k \in ds : \A q \in ds : q <= k].num
        ELSE IF as # {}
             THEN across[CHOOSE k \in as : \A q \in as : q <= k].num
        ELSE 0

GridCells == 0..(gw * gh - 1)

\* PuzzleModel.__init__: self.cells = CellsAccess(puzzle);
\* self.words = WordsAccess(puzzle, self.cells)
Build ==
    /\ gstatus = "new"
    /\ LET n == gw * gh
           la == AllLinkedA(gacross, gw, n)
           ld == AllLinkedD(gdown, gw, n)
       IN  IF \/ \E k \in 1..Len(la) : WordRaises(la[k])
              \/ \E k \in 1..Len(ld) : WordRaises(ld[k])
           THEN /\ gstatus' = "error"
                /\ UNCHANGED <<gwordA, gwordD, gnumber, gcellsA, gcellsD,
                               gletters, gowner>>
           ELSE /\ gstatus' = "built"
                /\ gcellsA' = la
                /\ gcellsD' = ld
                /\ gwordA' = [i \in GridCells |-> LastWord(la, i)]
                /\ gwordD' = [i \in GridCells |-> LastWord(ld, i)]
                /\ gnumber' = [i \in GridCells |->
                                 NumberOf(gacross, la, gdown, ld, i)]
                /\ gletters' = [i \in GridCells |-> <<>>]
                /\ gowner' = [i \in GridCells |-> 0]
    /\ UNCHANGED <<nonPuzzleVars, navVars, gw, gh, gfill, gacross, gdown>>

\* the clue records a numbering can hold for a grid of n cells; words that
\* start on the same cell carry the same number
Clues(n) ==
    {[cell |-> c, len |-> l, num |-> c + 1] : c \in 0..(n - 1), l \in 1..MaxLen}

ClueKey(r) == r.cell * (MaxLen + 1) + r.len

\* numbering.across / numbering.down: up to MaxClues records, in cell order
ClueLists(n) ==
    UNION {{s \in [1..k -> Clues(n)] :
              \A j \in 1..(k - 1) : ClueKey(s[j]) < ClueKey(s[j + 1])} :
           k \in 0..MaxClues}

\* a decoded puzzle of any shape, fill and numbering, consistent or not
GraphInput ==
    /\ \E w \in 1..MaxW, h \in 1..MaxH :
          /\ gw = w
          /\ gh = h
          /\ gfill \in [0..(w * h - 1) -> Kinds]
          /\ gacross \in ClueLists(w * h)
          /\ gdown \in ClueLists(w * h)
    /\ gstatus = "new"
    /\ gwordA = <<>>
    /\ gwordD = <<>>
    /\ gnumber = <<>>
    /\ gcellsA = <<>>
    /\ gcellsD = <<>>
    /\ gletters = <<>>
    /\ gowner = <<>>

InitGraph == NetInit /\ FrameInit /\ SyncInit /\ GraphInput /\ NavStart

NextGraph == Build

SpecGraph == InitGraph /\ [][NextGraph]_vars

(***************************************************************************)
(* The cursor: PuzzleController.draw, set_cell, move_cell,                 *)
(* switch_direction                                                        *)
(***************************************************************************)
\* cell.word[direction]: the index of the word in its list, 0 for None
WordOf(i, dir) == IF dir = ACROSS THEN gwordA[i] ELSE gwordD[i]

\* self.model.words[direction], as the cells of each word
Words(dir) == IF dir = ACROSS THEN gcellsA ELSE gcellsD

\* draw(CellModel) raises: with letters in the cell it reads model.color,
\* an attribute no CellModel has
DrawCellRaises(letters) == letters # <<>>

\* draw(WordModel) raises: draw(cell) raises for a cell of the word of
\* cell i in the direction
DrawWordRaises(i, dir) ==
    \E c \in Range(Words(dir)[WordOf(i, dir)]) : DrawCellRaises(gletters[c])

\* draw(PlayerModel) raises: the index is off the list (IndexError), the
\* cell is EMPTY (TypeError), the current cell or the target cell has no
\* word in the direction (word.fill on None), or the draw of either word
\* raises
DrawRaises(x, y, dir, cur) ==
    LET i == CellAt(x, y, gw, gw * gh)
    IN  \/ i < 0
        \/ gfill[i] = EMPTY
        \/ (cur >= 0 /\ WordOf(cur, dir) = 0)
        \/ (cur >= 0 /\ DrawWordRaises(cur, dir))
        \/ WordOf(i, dir) = 0
        \/ DrawWordRaises(i, dir)

\* variant: the draw assigns the back-reference of the cell as well
DrawAttrsWord == {"fill", "drawings", "word"}

\* draw: word.fill = ..., cell.fill = ..., model.drawings.box = ...
DrawAttrs == {"fill", "drawings"}

\* the attributes draw(PlayerModel) assigns before it returns or raises:
\* none when the cell lookup, the kind test or the first word.fill raises
Drawn(x, y, dir, cur) ==
    LET i == CellAt(x, y, gw, gw * gh)
    IN  IF \/ i < 0
           \/ gfill[i] = EMPTY
           \/ (cur >= 0 /\ WordOf(cur, dir) = 0)
           \/ (cur < 0 /\ WordOf(i, dir) = 0)
        THEN {}
        ELSE DrawAttrs

\* draw(PlayerModel): self.current = cell, or unchanged when it raises
DrawPlayer(x, y, dir, cur) ==
    IF DrawRaises(x, y, dir, cur) THEN cur ELSE CellAt(x, y, gw, gw * gh)

\* the exception draw(PlayerModel) raises: IndexError from the cell list,
\* TypeError for an EMPTY cell, AttributeError for word.fill on None
DrawError(x, y, dir, cur) ==
    LET i == CellAt(x, y, gw, gw * gh)
    IN  IF i < 0 THEN "IndexError"
        ELSE IF gfill[i] = EMPTY THEN "TypeError"
        ELSE IF DrawRaises(x, y, dir, cur) THEN "AttributeError"
        ELSE "none"

\* the record of a call: the operation, its arguments, the cell and the
\* direction it started from and the exception it ended with
Called(op, k, absolute, err) ==
    [op |-> op, k |-> k, abs |-> absolute, from |-> current, dir |-> pdir,
     err |-> err]

\* set_cell(x, y): the player's x, y are assigned before the draw
SetCell(x, y) ==
    /\ gstatus = "built"
    /\ px' = x
    /\ py' = y
    /\ current' = DrawPlayer(x, y, pdir, current)
    /\ nlast' = Called("set_cell", 0, FALSE, DrawError(x, y, pdir, current))
    /\ gattrs' = gattrs \cup Drawn(x, y, pdir, current)
    /\ nrun' = NoRun
    /\ UNCHANGED <<nonPuzzleVars, graphVars, pdir>>

\* variant: a column past the right edge is set to the width
FixRuleEdge(x, y, absolute) ==
    LET carry == IF absolute THEN 0 ELSE 1
    IN  IF x < 0 THEN [x |-> gw - 1, y |-> (y - carry) % gh]
        ELSE IF x >= gw THEN [x |-> gw, y |-> (y + carry) % gh]
        ELSE IF y < 0 THEN [x |-> (x - carry) % gw, y |-> gh - 1]
        ELSE [x |-> (x + carry) % gw, y |-> gh]

\* move_cell: one pass of the body of the inner while loop
FixRule(x, y, absolute) ==
    LET carry == IF absolute THEN 0 ELSE 1
    IN  IF x < 0 THEN [x |-> gw - 1, y |-> (y - carry) % gh]
        ELSE IF x >= gw THEN [x |-> 0, y |-> (y + carry) % gh]
        ELSE IF y < 0 THEN [x |-> (x - carry) % gw, y |-> gh - 1]
        ELSE [x |-> (x + carry) % gw, y |-> 0]

\* move_cell: the bounding rules of the inner while loop
RECURSIVE Fix(_, _, _)
Fix(x, y, absolute) ==
    IF x >= 0 /\ x < gw /\ y >= 0 /\ y < gh THEN [x |-> x, y |-> y]
    ELSE Fix(FixRule(x, y, absolute).x, FixRule(x, y, absolute).y, absolute)

\* variant: every cell passed counts as a unit of distance
CountsAny(i) == TRUE

\* move_cell: if self.model.cells[x, y].kind == LETTER: distance -= step
Counts(i) == gfill[i] = LETTER

\* move_cell: the outer while loop
RECURSIVE Move(_, _, _, _, _)
Move(x, y, distance, dir, absolute) ==
    IF distance = 0 THEN [x |-> x, y |-> y]
    ELSE LET step == IF distance < 0 THEN 0 - 1 ELSE 1
             p == Fix(x + (IF dir = ACROSS THEN step ELSE 0),
                      y + (IF dir = DOWN THEN step ELSE 0), absolute)
         IN  Move(p.x, p.y,
                  IF Counts(CellAt(p.x, p.y, gw, gw * gh))
                  THEN distance - step ELSE distance,
                  dir, absolute)

\* move_cell(distance, absolute), from the current cell
MoveCell(distance, absolute) ==
    /\ gstatus = "built"
    /\ current >= 0
    /\ LET t == Move(ToPosition(current, gw).x, ToPosition(current, gw).y,
                     distance, pdir, absolute)
       IN  /\ px' = t.x
           /\ py' = t.y
           /\ current' = DrawPlayer(t.x, t.y, pdir, current)
           /\ nlast' = Called("move_cell", distance, absolute,
                              DrawError(t.x, t.y, pdir, current))
           /\ gattrs' = gattrs \cup Drawn(t.x, t.y, pdir, current)
    /\ nrun' = NoRun
    /\ UNCHANGED <<nonPuzzleVars, graphVars, pdir>>

\* switch_direction: [ACROSS, DOWN][direction == ACROSS]
Other(dir) == IF dir = ACROSS THEN DOWN ELSE ACROSS

\* switch_direction: word.fill raises when the current cell has no word
\* in the direction, and the draw of the word raises when one of its cells
\* has letters; otherwise the direction is assigned before the draw
SwitchDirection ==
    /\ gstatus = "built"
    /\ current >= 0
    /\ IF WordOf(current, pdir) = 0
       THEN /\ nlast' = Called("switch_direction", 0, FALSE, "AttributeError")
            /\ UNCHANGED <<pdir, current, gattrs>>
       ELSE IF DrawWordRaises(current, pdir)
       THEN /\ nlast' = Called("switch_direction", 0, FALSE, "AttributeError")
            /\ gattrs' = gattrs \cup DrawAttrs
            /\ UNCHANGED <<pdir, current>>
       ELSE /\ pdir' = Other(pdir)
            /\ current' = DrawPlayer(px, py, Other(pdir), current)
            /\ nlast' = Called("switch_direction", 0, FALSE,
                               DrawError(px, py, Other(pdir), current))
            /\ gattrs' = gattrs \cup DrawAttrs
    /\ nrun' = NoRun
    /\ UNCHANGED <<nonPuzzleVars, graphVars, px, py>>

\* variant: the index stops at the last word of the list
WordIndexClamp(i, count, n) ==
    IF i + count > n - 1 THEN n - 1 ELSE IF i + count < 0 THEN 0 ELSE i + count

\* move_word: index = words.index(word) + count; index %= len(words)
WordIndex(i, count, n) == (i + count) % n

\* variant: the last cell of the word
LastCellOf(cells) == cells[Len(cells)]

\* move_word: words[direction][index].cells[0]
FirstCellOf(cells) == cells[1]

\* move_word(count): words.index raises ValueError when the current cell
\* has no word in the direction
MoveWord(count) ==
    /\ gstatus = "built"
    /\ current >= 0
    /\ IF WordOf(current, pdir) = 0
       THEN /\ nlast' = Called("move_word", count, FALSE, "ValueError")
            /\ nrun' = NoRun
            /\ UNCHANGED <<px, py, current, gattrs>>
       ELSE LET words == Words(pdir)
                index == WordIndex(WordOf(current, pdir) - 1, count, Len(words))
                cell == ToPosition(FirstCellOf(words[index + 1]), gw)
            IN  /\ px' = cell.x
                /\ py' = cell.y
                /\ current' = DrawPlayer(cell.x, cell.y, pdir, current)
                /\ nlast' = Called("move_word", count, FALSE,
                                   DrawError(cell.x, cell.y, pdir, current))
                /\ gattrs' = gattrs \cup Drawn(cell.x, cell.y, pdir, current)
                /\ nrun' = IF count # 1 THEN NoRun
                           ELSE IF nrun.n > 0 /\ nrun.n < Len(words)
                                THEN [nrun EXCEPT !.n = @ + 1]
                           ELSE [w |-> WordOf(current, pdir), n |-> 1]
    /\ UNCHANGED <<nonPuzzleVars, graphVars, pdir>>

\* on_left_click, for the grid position (x, y) of the pixel: a click on an
\* EMPTY cell returns, a click on the current cell switches the direction
\* first, then set_cell(x, y)
OnLeftClick(x, y) ==
    /\ gstatus = "built"
    /\ nrun' = NoRun
    /\ LET i == CellAt(x, y, gw, gw * gh)
           d == Other(pdir)
           c == DrawPlayer(px, py, d, current)
       IN  IF i < 0
           THEN /\ nlast' = Called("left_click", 0, FALSE, "IndexError")
                /\ UNCHANGED <<px, py, pdir, current>>
           ELSE IF gfill[i] = EMPTY
           THEN /\ nlast' = Called("left_click", 0, FALSE, "none")
                /\ UNCHANGED <<px, py, pdir, current>>
           ELSE IF i # current
           THEN /\ px' = x
                /\ py' = y
                /\ current' = DrawPlayer(x, y, pdir, current)
                /\ nlast' = Called("left_click", 0, FALSE,
                                   DrawError(x, y, pdir, current))
                /\ UNCHANGED pdir
           ELSE IF WordOf(current, pdir) = 0 \/ DrawWordRaises(current, pdir)
           THEN /\ nlast' = Called("left_click", 0, FALSE, "AttributeError")
                /\ UNCHANGED <<px, py, pdir, current>>
           ELSE IF DrawRaises(px, py, d, current)
           THEN /\ pdir' = d
                /\ nlast' = Called("left_click", 0, FALSE,
                                   DrawError(px, py, d, current))
                /\ UNCHANGED <<px, py, current>>
           ELSE /\ pdir' = d
                /\ px' = x
                /\ py' = y
                /\ current' = DrawPlayer(x, y, d, c)
                /\ nlast' = Called("left_click", 0, FALSE,
                                   DrawError(x, y, d, c))
    /\ gattrs' = gattrs \cup
                 (LET i == CellAt(x, y, gw, gw * gh)
                  IN  IF i < 0 THEN {}
                      ELSE IF gfill[i] = EMPTY THEN {}
                      ELSE IF i # current THEN Drawn(x, y, pdir, current)
                      ELSE IF WordOf(current, pdir) = 0 THEN {}
                      ELSE DrawAttrs)
    /\ UNCHANGED <<nonPuzzleVars, graphVars>>

\* the length of the run of non-black cells from cell i along its row
RECURSIVE LenAcross(_, _, _)
LenAcross(fill, w, i) ==
    IF fill[i] = EMPTY THEN 0
    ELSE IF (i + 1) % w = 0 THEN 1
    ELSE 1 + LenAcross(fill, w, i + 1)

\* the length of the run of non-black cells from cell i down its column,
\* on a grid of n cells
RECURSIVE LenDown(_, _, _, _)
LenDown(fill, w, n, i) ==
    IF fill[i] = EMPTY THEN 0
    ELSE IF i + w >= n THEN 1
    ELSE 1 + LenDown(fill, w, n, i + w)

\* cell i starts an across word: a non-black cell in column 0 or after a
\* black cell, with a run longer than 1
IsAcross(fill, w, i) ==
    /\ fill[i] = LETTER
    /\ IF i % w = 0 THEN TRUE ELSE fill[i - 1] = EMPTY
    /\ LenAcross(fill, w, i) > 1

\* cell i starts a down word: a non-black cell in row 0 or below a black
\* cell, with a run longer than 1
IsDown(fill, w, n, i) ==
    /\ fill[i] = LETTER
    /\ IF i < w THEN TRUE ELSE fill[i - w] = EMPTY
    /\ LenDown(fill, w, n, i) > 1

\* the clue number of cell i: start cells are numbered from 1 in cell order
NumAt(fill, w, n, i) ==
    Cardinality({j \in 0..i : IsAcross(fill, w, j) \/ IsDown(fill, w, n, j)})

\* numbering.across of the decoded puzzle, from cell i on
RECURSIVE NumberingAcross(_, _, _, _)
NumberingAcross(fill, w, n, i) ==
    IF i >= n THEN <<>>
    ELSE (IF IsAcross(fill, w, i)
          THEN <<[cell |-> i, len |-> LenAcross(fill, w, i),
                  num |-> NumAt(fill, w, n, i)]>>
          ELSE <<>>) \o NumberingAcross(fill, w, n, i + 1)

\* numbering.down of the decoded puzzle, from cell i on
RECURSIVE NumberingDown(_, _, _, _)
NumberingDown(fill, w, n, i) ==
    IF i >= n THEN <<>>
    ELSE (IF IsDown(fill, w, n, i)
          THEN <<[cell |-> i, len |-> LenDown(fill, w, n, i),
                  num |-> NumAt(fill, w, n, i)]>>
          ELSE <<>>) \o NumberingDown(fill, w, n, i + 1)

\* a decoded puzzle of any shape and fill with the numbering of its fill
PuzzleInput ==
    /\ \E w \in 1..NavW, h \in 1..NavH :
          /\ gw = w
          /\ gh = h
          /\ gfill \in [0..(w * h - 1) -> Kinds]
    /\ gacross = NumberingAcross(gfill, gw, gw * gh, 0)
    /\ gdown = NumberingDown(gfill, gw, gw * gh, 0)
    /\ gstatus = "new"
    /\ gwordA = <<>>
    /\ gwordD = <<>>
    /\ gnumber = <<>>
    /\ gcellsA = <<>>
    /\ gcellsD = <<>>
    /\ gletters = <<>>
    /\ gowner = <<>>

InitNav == NetInit /\ FrameInit /\ SyncInit /\ PuzzleInput /\ NavStart

NextNav ==
    \/ Build
    \/ \E x \in (0 - 1)..gw, y \in (0 - 1)..gh : SetCell(x, y)
    \/ \E k \in (0 - MaxDist)..MaxDist, a \in BOOLEAN : MoveCell(k, a)
    \/ SwitchDirection
    \/ \E n \in (0 - MaxCount)..MaxCount : MoveWord(n)
    \/ \E x \in (0 - 1)..gw, y \in (0 - 1)..gh : OnLeftClick(x, y)

SpecNav == InitNav /\ [][NextNav]_vars

\* passes of either loop of move_cell that the model follows
LoopCap == MaxDist * NavW * NavH + 2

\* move_cell: step, across, down and x, y are set from the arguments
MoveBegin(distance, absolute) ==
    /\ gstatus = "built"
    /\ current >= 0
    /\ mpc = "idle"
    /\ mpc' = "outer"
    /\ mx' = ToPosition(current, gw).x
    /\ my' = ToPosition(current, gw).y
    /\ mdist' = distance
    /\ mk' = distance
    /\ mabs' = absolute
    /\ msteps' = 0
    /\ mfix' = 0
    /\ UNCHANGED <<nonCursorVars, navVars>>

\* move_cell: while distance != 0: x += step * across; y += step * down
MoveOuter ==
    /\ mpc = "outer"
    /\ msteps < LoopCap
    /\ IF mdist = 0
       THEN /\ mpc' = "select"
            /\ UNCHANGED <<mx, my, msteps, mfix>>
       ELSE LET step == IF mk < 0 THEN 0 - 1 ELSE 1
            IN  /\ mx' = mx + (IF pdir = ACROSS THEN step ELSE 0)
                /\ my' = my + (IF pdir = DOWN THEN step ELSE 0)
                /\ msteps' = msteps + 1
                /\ mfix' = 0
                /\ mpc' = "inner"
    /\ UNCHANGED <<nonCursorVars, navVars, mdist, mabs, mk>>

\* move_cell: the inner while loop, one pass; after it the test of the
\* kind of the cell
MoveInner ==
    /\ mpc = "inner"
    /\ mfix < LoopCap
    /\ IF mx >= 0 /\ mx < gw /\ my >= 0 /\ my < gh
       THEN /\ mdist' = IF Counts(CellAt(mx, my, gw, gw * gh))
                         THEN mdist - (IF mk < 0 THEN 0 - 1 ELSE 1)
                         ELSE mdist
            /\ mpc' = "outer"
            /\ UNCHANGED <<mx, my, mfix>>
       ELSE /\ mx' = FixRule(mx, my, mabs).x
            /\ my' = FixRule(mx, my, mabs).y
            /\ mfix' = mfix + 1
            /\ UNCHANGED <<mpc, mdist>>
    /\ UNCHANGED <<nonCursorVars, navVars, mabs, mk, msteps>>

\* move_cell: self.set_cell(x, y)
MoveSelect ==
    /\ mpc = "select"
    /\ mpc' = "idle"
    /\ px' = mx
    /\ py' = my
    /\ current' = DrawPlayer(mx, my, pdir, current)
    /\ nlast' = Called("move_cell", mk, mabs, DrawError(mx, my, pdir, current))
    /\ gattrs' = gattrs \cup Drawn(mx, my, pdir, current)
    /\ nrun' = NoRun
    /\ UNCHANGED <<nonCursorVars, pdir, mx, my, mdist, mabs, mk, msteps, mfix>>

\* the puzzle is built, cells of the grid are selected, the direction is
\* switched and move_cell is run statement by statement
NextLoop ==
    \/ Build
    \/ mpc = "idle" /\ \E x \in 0..(gw - 1), y \in 0..(gh - 1) : SetCell(x, y)
    \/ mpc = "idle" /\ SwitchDirection
    \/ \E k \in (0 - MaxDist)..MaxDist, a \in BOOLEAN : MoveBegin(k, a)
    \/ MoveOuter
    \/ MoveInner
    \/ MoveSelect

SpecLoop == InitNav /\ [][NextLoop]_vars

\* a decoded 5 x 5 puzzle whose row 0 and column 0 are LETTER cells and
\* whose other cells are EMPTY, with the numbering of that fill: one across
\* word (0,0)-(4,0) and one down word (0,0)-(0,4)
CornerInput ==
    /\ gw = 5
    /\ gh = 5
    /\ gfill = [i \in 0..24 |-> IF i < 5 \/ i % 5 = 0 THEN LETTER ELSE EMPTY]
    /\ gacross = NumberingAcross(gfill, gw, gw * gh, 0)
    /\ gdown = NumberingDown(gfill, gw, gw * gh, 0)
    /\ gstatus = "new"
    /\ gwordA = <<>>
    /\ gwordD = <<>>
    /\ gnumber = <<>>
    /\ gcellsA = <<>>
    /\ gcellsD = <<>>
    /\ gletters = <<>>
    /\ gowner = <<>>

InitCorner == NetInit /\ FrameInit /\ SyncInit /\ CornerInput /\ NavStart

\* the puzzle is built, cells of the grid are selected, the direction is
\* switched and the cursor is moved by one cell
NextCorner ==
    \/ Build
    \/ \E x \in 0..(gw - 1), y \in 0..(gh - 1) : SetCell(x, y)
    \/ \E k \in {0 - 1, 1}, a \in BOOLEAN : MoveCell(k, a)
    \/ SwitchDirection

SpecCorner == InitCorner /\ [][NextCorner]_vars

(***************************************************************************)
(* The board of the single-window player: Player.build_application         *)
(***************************************************************************)
\* numbers = {w["cell"]: w["num"] for w in numbering.across};
\* numbers.update(... numbering.down); numbers.get(i, "") with 0 for ""
Numbers(across, down, i) ==
    LET ds == {k \in 1..Len(down) : down[k].cell = i}
        as == {k \in 1..Len(across) : across[k].cell = i}
    IN  IF ds # {} THEN down[CHOOSE k \in ds : \A q \in ds : q <= k].num
        ELSE IF as # {}
             THEN across[CHOOSE k \in as : \A q \in as : q <= k].num
        ELSE 0

\* build_application: y*self.puzzle.height + x
FlatIndex(x, y, w, h) == y * h + x

\* the rank of (x, y) in the order of the two for loops
LoopRank(x, y, w) == y * w + x

\* build_application: for y in range(height): for x in range(width):
\* self.board[x, y] = Cell(..., fill[index], ..., number=numbers.get(index));
\* fill[index] raises IndexError past the end of the fill, which leaves the
\* cells from there on unset
BuildApplication ==
    /\ gstatus # "none"
    /\ bstatus = "none"
    /\ LET n == gw * gh
           pos == (0..(gw - 1)) \X (0..(gh - 1))
           bad == {p \in pos : FlatIndex(p[1], p[2], gw, gh) >= n}
           stored(p) == \A q \in bad : LoopRank(p[1], p[2], gw)
                                         < LoopRank(q[1], q[2], gw)
       IN  /\ bstatus' = IF bad = {} THEN "built" ELSE "error"
           /\ bcells' = [p \in pos |->
                           IF stored(p)
                           THEN [type |-> gfill[FlatIndex(p[1], p[2], gw, gh)],
                                 number |-> Numbers(gacross, gdown,
                                              FlatIndex(p[1], p[2], gw, gh))]
                           ELSE [type |-> "None", number |-> 0]]
    /\ UNCHANGED <<netVars, frameVars, syncVars, graphVars, navVars, loopVars>>

\* to_position and to_index are applied to the cells and positions of the
\* grid by both builds
NextBoard ==
    \/ Build
    \/ BuildApplication

SpecBoard == InitNav /\ [][NextBoard]_vars

(***************************************************************************)
(* Editing: insert_letter, remove_letter, on_key                           *)
(***************************************************************************)
\* string.ascii_lowercase, string.ascii_uppercase, letter by letter
AsciiLower == <<"a", "b", "c", "d", "e", "f", "g", "h", "i", "j", "k", "l",
                "m", "n", "o", "p", "q", "r", "s", "t", "u", "v", "w", "x",
                "y", "z">>

AsciiUpper == <<"A", "B", "C", "D", "E", "F", "G", "H", "I", "J", "K", "L",
                "M", "N", "O", "P", "Q", "R", "S", "T", "U", "V", "W", "X",
                "Y", "Z">>

\* letter in string.ascii_lowercase, for a string of one character
IsLower(ch) == \E k \in 1..Len(AsciiLower) : AsciiLower[k] = ch

\* letter in string.ascii_uppercase, for a string of one character
IsUpper(ch) == \E k \in 1..Len(AsciiUpper) : AsciiUpper[k] = ch

\* variant: the letter is stored as typed
UpperSame(ch) == ch

\* letter.upper()
Upper(ch) ==
    IF IsLower(ch)
    THEN AsciiUpper[CHOOSE k \in 1..Len(AsciiLower) : AsciiLower[k] = ch]
    ELSE ch

\* the keys typed: a lowercase letter, an uppercase letter, the space and
\* a key that is no letter
Keys == <<"a", "B", " ", "1">>

\* insert_letter: the letters of the current cell after the call
Typed(letters, ch) ==
    IF ch = " " THEN <<>>
    ELSE IF IsLower(ch) THEN <<Upper(ch)>>
    ELSE IF IsUpper(ch) THEN Append(letters, Upper(ch))
    ELSE letters

\* the attributes insert_letter assigns before it returns or raises
TypedAttrs(ch) ==
    {"owner", "drawings"} \cup
    (IF ch = " " \/ IsLower(ch) \/ IsUpper(ch) THEN {"letters"} ELSE {})

\* remove_letter: letters[:-1]
ButLast(letters) ==
    IF letters = <<>> THEN <<>> ELSE SubSeq(letters, 1, Len(letters) - 1)

\* insert_letter(Keys[k]) called as op: the owner and the letters of the
\* current cell are assigned, then the cell is drawn
Insert(k, op) ==
    /\ gstatus = "built"
    /\ current >= 0
    /\ Len(Typed(gletters[current], Keys[k])) <= MaxLetters
    /\ gowner' = [gowner EXCEPT ![current] = 1]
    /\ gletters' = [gletters EXCEPT ![current] = Typed(@, Keys[k])]
    /\ nlast' = Called(op, k, FALSE,
                       IF DrawCellRaises(Typed(gletters[current], Keys[k]))
                       THEN "AttributeError" ELSE "none")
    /\ gattrs' = gattrs \cup TypedAttrs(Keys[k])
    /\ nrun' = NoRun
    /\ UNCHANGED <<nonPuzzleVars, gw, gh, gfill, gacross, gdown, gstatus,
                   gwordA, gwordD, gnumber, gcellsA, gcellsD, px, py, pdir,
                   current>>

\* insert_letter(letter)
InsertLetter(k) == Insert(k, "insert_letter")

\* remove_letter()
RemoveLetter ==
    /\ gstatus = "built"
    /\ current >= 0
    /\ gletters' = [gletters EXCEPT ![current] = ButLast(@)]
    /\ nlast' = Called("remove_letter", 0, FALSE,
                       IF DrawCellRaises(ButLast(gletters[current]))
                       THEN "AttributeError" ELSE "none")
    /\ gattrs' = gattrs \cup {"letters", "drawings"}
    /\ nrun' = NoRun
    /\ UNCHANGED <<nonPuzzleVars, gw, gh, gfill, gacross, gdown, gstatus,
                   gwordA, gwordD, gnumber, gcellsA, gcellsD, gowner, px, py,
                   pdir, current>>

\* on_key: a key that is a letter is inserted; the draw in insert_letter
\* raises for the letter the cell then holds, which ends the handler before
\* its move_cell()
OnKey(k) ==
    /\ IsLower(Keys[k]) \/ IsUpper(Keys[k])
    /\ Insert(k, "on_key")

\* a decoded puzzle of up to MaxW x MaxH cells of any fill with the
\* numbering of its fill
EditInput ==
    /\ \E w \in 1..MaxW, h \in 1..MaxH :
          /\ gw = w
          /\ gh = h
          /\ gfill \in [0..(w * h - 1) -> Kinds]
    /\ gacross = NumberingAcross(gfill, gw, gw * gh, 0)
    /\ gdown = NumberingDown(gfill, gw, gw * gh, 0)
    /\ gstatus = "new"
    /\ gwordA = <<>>
    /\ gwordD = <<>>
    /\ gnumber = <<>>
    /\ gcellsA = <<>>
    /\ gcellsD = <<>>
    /\ gletters = <<>>
    /\ gowner = <<>>

InitEdit == NetInit /\ FrameInit /\ SyncInit /\ EditInput /\ NavStart

\* the puzzle is built, cells of the grid are selected, the direction is
\* switched, the cursor is moved and letters are typed and removed
NextEdit ==
    \/ Build
    \/ \E x \in 0..(gw - 1), y \in 0..(gh - 1) : SetCell(x, y)
    \/ SwitchDirection
    \/ \E k \in {0 - 1, 1} : MoveCell(k, FALSE)
    \/ MoveWord(1)
    \/ \E k \in 1..Len(Keys) : InsertLetter(k)
    \/ RemoveLetter
    \/ \E k \in 1..Len(Keys) : OnKey(k)

SpecEdit == InitEdit /\ [][NextEdit]_vars

(***************************************************************************)
(* Clients and relay end to end: every server handler runs to its end      *)
(* before the next one starts (no failed sends, no interleaving inside a   *)
(* handler); the clients' receive loops and update ticks interleave freely *)
(***************************************************************************)
\* the relay state these actions leave alone
syncNetRest == <<nemit, wire, alive, sockClosed, salive, queue, th, smodel,
                 fails, dlog, stopped, dsnap>>

\* SocketServer.emit over a given roster: handlers = handlers or roster
EmitTargets(args, roster) == IF args = <<>> THEN roster ELSE args

\* handler.emit(...) for every handler of list, in one step
SendAll(s, list, m) ==
    [h \in Conn |-> IF h \in Range(list) THEN Append(s[h], m) ELSE s[h]]

\* Controller.__init__ up to connection.start(): players = [PlayerModel],
\* CrosswordConnection(address); SocketServer.accept: handler.start(),
\* self.handlers.append(handler)
SyncAccept(c) ==
    /\ peer[c] = "idle"
    /\ IF c = 1 THEN TRUE ELSE peer[c - 1] # "idle"
    /\ peer' = [peer EXCEPT ![c] = "open"]
    /\ handlers' = Append(handlers, c)
    /\ players' = [players EXCEPT ![c] = <<[name |-> c, id |-> 0]>>]
    /\ UNCHANGED <<nonSyncVars, syncNetRest, sent, pname, cread, cq, clog>>

\* the client's CLIENT_JOINED {name, color} reaches the dispatch loop:
\* CrosswordServer.on_client_joined
SyncJoined(c) ==
    /\ peer[c] = "open"
    /\ pname[c] = 0
    /\ pname' = [pname EXCEPT ![c] = c]
    /\ sent' = SendAll([sent EXCEPT ![c] =
                            Append(@, Msg(ID_ASSIGNED, HandlerId(c), c))],
                       EmitTargets(JoinedArgs(c), handlers),
                       Msg(CLIENT_JOINED, HandlerId(c), c))
    /\ UNCHANGED <<nonSyncVars, syncNetRest, peer, handlers, syncVars>>

\* the client process ends; the handler's receive fails;
\* SocketHandler.stop: the handler leaves the roster and
\* self.server.emit(CLIENT_EXITED, "")
SyncExit(c) ==
    /\ peer[c] = "open"
    /\ Cardinality({d \in Conn : peer[d] = "closed"}) < MaxClose
    /\ peer' = [peer EXCEPT ![c] = "closed"]
    /\ handlers' = Remove(handlers, c)
    /\ sent' = SendAll(sent, EmitTargets(ExitedArgs(c), Remove(handlers, c)),
                       Msg(CLIENT_EXITED, 0, c))
    /\ UNCHANGED <<nonSyncVars, syncNetRest, pname, syncVars>>

\* SocketConnection.receive: event, data = pickle.loads(recv(self.sock));
\* self.q.put((event, data))
ConnReceive(c) ==
    /\ peer[c] = "open"
    /\ cread[c] < Len(sent[c])
    /\ cq' = [cq EXCEPT ![c] = QueuePut(@, sent[c][cread[c] + 1])]
    /\ cread' = [cread EXCEPT ![c] = @ + 1]
    /\ UNCHANGED <<nonSyncVars, netVars, players, clog>>

\* Controller.bindings after Controller.__init__
ClientBindings(event) ==
    CASE event = CLIENT_JOINED -> "on_client_joined"
      [] event = ID_ASSIGNED -> "on_id_assigned"
      [] OTHER -> "None"

\* Controller.on_id_assigned: self.players[0].id = data
OnIdAssigned(ps, m) == [ps EXCEPT ![1].id = m.data]

\* variant: a PlayerModel is appended for every CLIENT_JOINED
OnClientJoinedAlways(ps, m) == Append(ps, [name |-> m.by, id |-> 0])

\* Controller.on_client_joined: a new PlayerModel (its id is not set) is
\* appended unless the event carries the local player's id
OnClientJoined(ps, m) ==
    IF ps[1].id # m.data THEN Append(ps, [name |-> m.by, id |-> 0]) ELSE ps

\* Controller.update, one tick: if the queue is not empty, one event is
\* popped and passed to its bound function
Update(c) ==
    /\ peer[c] = "open"
    /\ cq[c] # <<>>
    /\ LET g == QueueGet(cq[c])
           fn == ClientBindings(g.item.event)
       IN  /\ cq' = [cq EXCEPT ![c] = g.rest]
           /\ clog' = [clog EXCEPT ![c] =
                          Append(@, [event |-> g.item.event, fn |-> fn])]
           /\ players' = [players EXCEPT ![c] =
                  CASE fn = "on_id_assigned" -> OnIdAssigned(@, g.item)
                    [] fn = "on_client_joined" -> OnClientJoined(@, g.item)
                    [] OTHER -> @]
    /\ UNCHANGED <<nonSyncVars, netVars, cread>>

NextSync ==
    \/ \E c \in Conn : SyncAccept(c)
    \/ \E c \in Conn : SyncJoined(c)
    \/ \E c \in Conn : SyncExit(c)
    \/ \E c \in Conn : ConnReceive(c)
    \/ \E c \in Conn : Update(c)

SpecSync == Init /\ [][NextSync]_vars

\* clients that stay connected, the threads of the relay, and the receive
\* loop and the update ticks of the first client, with events that have no
\* binding on either side: a client's last event at the server,
\* CLIENT_EXITED at the client
NextUnbound ==
    \/ \E c \in Conn : ControllerInit(c)
    \/ \E c \in Conn : ClientEmit(c)
    \/ \E c \in Conn : ClientEmitOther(c)
    \/ \E c \in Conn : AcceptConn(c)
    \/ HandlerStart
    \/ RosterAppend
    \/ \E c \in Conn : HandlerRecv(c)
    \/ \E t \in Threads : StopRemove(t)
    \/ \E t \in Threads : StopEmit(t)
    \/ \E t \in Threads : ServerStopAlive(t)
    \/ \E t \in Threads : ServerStopLoop(t)
    \/ \E t \in Threads : Dispatch(t)
    \/ \E t \in Threads : PuzzleLoaded(t)
    \/ \E t \in Threads : Joined(t)
    \/ \E t \in Threads : JoinedEmit(t)
    \/ ConnReceive(1)
    \/ Update(1)

SpecUnbound == Init /\ [][NextUnbound]_vars

(***************************************************************************)
(* Properties of the relay                                                 *)
(***************************************************************************)
\* how many times the server wrote event e, sent on behalf of handler b,
\* to the socket of connection c
Count(c, e, b) ==
    Cardinality({k \in 1..Len(sent[c]) :
                   sent[c][k].event = e /\ sent[c][k].by = b})

Started(c) == th[c].pc # "idle"

\* the for loop of the emit in on_client_joined / stop has run to its end
JoinDone(t) ==
    /\ th[t].pc = "h_joined_emit"
    /\ th[t].j >= Len(EmitList(JoinedArgs(th[t].cur.handler)))

ExitDone(t) ==
    /\ th[t].pc = "hs_emit"
    /\ th[t].j >= Len(EmitList(ExitedArgs(th[t].h)))

C2_AsClaimed ==
    \A t \in Threads :
        ExitDone(t) =>
           /\ \A c \in th[t].act :
                 (alive[c] /\ c # th[t].h) =>
                    Count(c, CLIENT_EXITED, th[t].h) = 1
           /\ Count(th[t].h, CLIENT_EXITED, th[t].h) = 0

\* C3 as stated: once the receive of connection c has failed and its
\* receive thread has finished, c is not in the roster and its stop() has
\* broadcast CLIENT_EXITED to the end; at the end of that broadcast every
\* connection in the roster has the event
C3_AsClaimed ==
    \A c \in Conn :
        /\ (sockClosed[c] /\ th[c].pc \in {"done", "dead"}) =>
              (c \notin Range(handlers) /\ stopped[c])
        /\ (sockClosed[c] /\ ExitDone(c)) =>
              \A d \in Range(handlers) : Count(d, CLIENT_EXITED, c) >= 1

\* C4 as stated: unless a puzzle load (no transport failure) is what the
\* dispatch loop failed on, the server stays alive and every started
\* connection whose own receive has not failed stays Active
C4_AsClaimed ==
    th[DispatchT].cur.event # PUZZLE_LOADED =>
       /\ salive
       /\ \A c \in Conn : (Started(c) /\ ~sockClosed[c]) => alive[c]

\* C26 as stated: a PUZZLE_LOADED event whose puzzle cannot be stored or
\* decoded fails only the puzzle load: while and after the dispatch loop
\* handles it the server stays alive, the loop goes on and every started
\* connection whose own receive has not failed stays Active
C26_AsClaimed ==
    th[DispatchT].cur.event = PUZZLE_LOADED =>
       /\ salive
       /\ th[DispatchT].pc \notin {"done", "dead"}
       /\ \A c \in Conn : (Started(c) /\ ~sockClosed[c]) => alive[c]

\* the data of the queued items of connection c, in queue order
QueueData(c) ==
    LET q == SelectSeq(queue, LAMBDA it : it.handler = c)
    IN  [k \in 1..Len(q) |-> q[k].data]

\* C5: every item a receive loop put on the queue is either still queued
\* or was popped exactly once (per connection, popped items followed by
\* queued items are exactly the frames received, none lost, none twice);
\* at most one bound function runs at a time, on the dispatch thread, and
\* it runs on the item popped last
C5_SingleConsumer ==
    /\ \A c \in Conn :
          dlog[c] \o QueueData(c) = [n \in 1..(nemit[c] - Len(wire[c])) |-> n]
    /\ Cardinality({t \in Threads : th[t].pc \in HandlerPcs}) <= 1
    /\ \A t \in Threads :
          th[t].pc \in HandlerPcs =>
             /\ t = DispatchT
             /\ th[t].cur.data = dlog[th[t].cur.handler]
                                     [Len(dlog[th[t].cur.handler])]

C5_Witness ==
    /\ dlog[1] = <<1, 2>>
    /\ dlog[2] = <<1>>
    /\ queue = <<>>

\* C6: the dispatch loop pops the events of each connection in the order
\* in which the client emitted them
C6_StreamOrder ==
    \A c \in Conn :
        /\ Len(dlog[c]) <= nemit[c]
        /\ \A k \in 1..Len(dlog[c]) : dlog[c][k] = Emitted(c)[k].data

C6_Witness ==
    /\ Len(dlog[2]) = 2
    /\ Len(dlog[1]) >= 1
    /\ Len(queue) >= 1

\* C7 as stated: the roster changes only in a step of the dispatch thread
\* inside a bound function
C7_AsClaimed ==
    [][handlers' # handlers =>
          (th[DispatchT].pc \in HandlerPcs /\ th'[DispatchT] # th[DispatchT])]_vars

\* the client's socket stays open until the process ends
ClientStopped(c) == peer[c] \in {"stopped", "closed"}
ClientSockOpen(c) == peer[c] \in {"open", "stopped"}

\* C8 as stated: once stop() has returned on a connection (server handler
\* or client connection), its socket is closed
C8_AsClaimed ==
    \A c \in Conn :
        /\ stopped[c] => sockClosed[c]
        /\ ClientStopped(c) => ~ClientSockOpen(c)

\* C9 as stated: a Closed connection (started, no longer alive) is never a
\* member of the roster
C9_AsClaimed ==
    \A c \in Conn : (Started(c) /\ ~alive[c]) => c \notin Range(handlers)


(***************************************************************************)
(* Properties of the framed transport                                      *)
(***************************************************************************)
\* C10: recv returns exactly the payloads passed to send, in order and with
\* the same boundaries, however sock.recv splits the stream; once every
\* byte has been read and recv is between two messages, every payload sent
\* has been returned
C10_RoundTrip ==
    /\ Len(frcvd) <= Len(fsent)
    /\ \A k \in 1..Len(frcvd) : frcvd[k] = fsent[k]
    /\ (fstream = <<>> /\ fphase = "size" /\ fbuf = <<>>) => frcvd = fsent

C10_Witness ==
    /\ Len(frcvd) = 2
    /\ frcvd = fsent
    /\ frcvd[1] = <<>>
    /\ Len(frcvd[2]) = 2
    /\ fpartial

C12_AsClaimed ==
    [][\A c \in Conn : clog'[c] # clog[c] => cq'[c] = <<>>]_vars

\* everything in flight has been delivered and processed: every connected
\* client has been accepted and its join dispatched, and it has read and
\* handled everything the server sent it
Settled ==
    \A c \in Conn :
        peer[c] = "open" =>
           /\ pname[c] = c
           /\ cread[c] = Len(sent[c])
           /\ cq[c] = <<>>

\* the entries of client c's roster that stand for participant d
Entries(c, d) == {k \in 1..Len(players[c]) : players[c][k].name = d}

\* C13 as stated: once everything is delivered and processed, the roster
\* of a remaining client holds no player of a participant whose connection
\* has closed
C13_AsClaimed ==
    Settled =>
       \A c, d \in Conn :
           (peer[c] = "open" /\ peer[d] = "closed") => Entries(c, d) = {}

\* C14 as stated: once everything is delivered and processed, every
\* connected client's roster has exactly one player for each connected
\* participant that has joined
C14_AsClaimed ==
    Settled =>
       \A c, d \in Conn :
           (peer[c] = "open" /\ peer[d] = "open") =>
              Cardinality(Entries(c, d)) = 1

(***************************************************************************)
(* Properties of the puzzle graph                                          *)
(***************************************************************************)
\* the cells of the span of a clue: len cells from its first cell, along
\* the row (ACROSS) or the column (DOWN), as positions that may be off grid
SpanX(info, dir, j) ==
    ToPosition(info.cell, gw).x + (IF dir = ACROSS THEN j ELSE 0)

SpanY(info, dir, j) ==
    ToPosition(info.cell, gw).y + (IF dir = DOWN THEN j ELSE 0)

OnGrid(x, y) == x >= 0 /\ x < gw /\ y >= 0 /\ y < gh

\* the span of the clue covers cell i
Covers(info, dir, i) ==
    \E j \in 0..(info.len - 1) :
        /\ OnGrid(SpanX(info, dir, j), SpanY(info, dir, j))
        /\ i = SpanY(info, dir, j) * gw + SpanX(info, dir, j)

\* the span crosses the grid boundary or includes an EMPTY cell
Malformed(info, dir) ==
    \E j \in 0..(info.len - 1) :
        \/ ~OnGrid(SpanX(info, dir, j), SpanY(info, dir, j))
        \/ gfill[SpanY(info, dir, j) * gw + SpanX(info, dir, j)] = EMPTY

SomeMalformed ==
    \/ \E k \in 1..Len(gacross) : Malformed(gacross[k], ACROSS)
    \/ \E k \in 1..Len(gdown) : Malformed(gdown[k], DOWN)

\* a valid input: no span is malformed and no two spans of one direction
\* share a cell
ValidInput ==
    /\ ~SomeMalformed
    /\ \A i \in GridCells :
          /\ Cardinality({k \in 1..Len(gacross) :
                             Covers(gacross[k], ACROSS, i)}) <= 1
          /\ Cardinality({k \in 1..Len(gdown) :
                             Covers(gdown[k], DOWN, i)}) <= 1

\* C16: for a valid input, construction returns a graph in which the
\* across (down) back-reference of every LETTER cell is the across (down)
\* word whose span covers it, or none if no span covers it, and the first
\* cell of every word carries the word's clue number
C16_BackRefs ==
    (ValidInput /\ gstatus # "new") =>
       /\ gstatus = "built"
       /\ \A i \in GridCells :
             gfill[i] = LETTER =>
                /\ \A k \in 1..Len(gacross) :
                      Covers(gacross[k], ACROSS, i) <=> gwordA[i] = k
                /\ \A k \in 1..Len(gdown) :
                      Covers(gdown[k], DOWN, i) <=> gwordD[i] = k
                /\ gwordA[i] \in 0..Len(gacross)
                /\ gwordD[i] \in 0..Len(gdown)
       /\ \A k \in 1..Len(gacross) :
             gnumber[gcellsA[k][1]] = gacross[k].num
       /\ \A k \in 1..Len(gdown) :
             gnumber[gcellsD[k][1]] = gdown[k].num

C16_Witness ==
    /\ gstatus = "built"
    /\ ValidInput
    /\ gw = 2
    /\ gh = 2
    /\ Len(gacross) = 2
    /\ Len(gdown) = 2
    /\ gacross[1].len = 2
    /\ gdown[2].len = 2
    /\ gwordA[3] = 2
    /\ gwordD[3] = 2

\* C17 as stated: no graph is returned when some clue's span crosses the
\* grid boundary or includes an EMPTY cell
C17_AsClaimed == SomeMalformed => gstatus # "built"

\* the cells of word.cells follow each other along the word's axis
Contiguous(cells, dir) ==
    /\ cells # <<>>
    /\ \A j \in 1..(Len(cells) - 1) :
          IF dir = ACROSS
          THEN /\ ToPosition(cells[j + 1], gw).y = ToPosition(cells[j], gw).y
               /\ ToPosition(cells[j + 1], gw).x = ToPosition(cells[j], gw).x + 1
          ELSE /\ ToPosition(cells[j + 1], gw).x = ToPosition(cells[j], gw).x
               /\ ToPosition(cells[j + 1], gw).y = ToPosition(cells[j], gw).y + 1

\* C18 as stated: in every graph that construction returns, an EMPTY cell
\* has no back-reference and is in no word's cells, and every word's cells
\* are non-empty and contiguous along the word's axis
C18_AsClaimed ==
    gstatus = "built" =>
       /\ \A i \in GridCells :
             gfill[i] = EMPTY =>
                /\ gwordA[i] = 0
                /\ gwordD[i] = 0
                /\ \A k \in 1..Len(gcellsA) : i \notin Range(gcellsA[k])
                /\ \A k \in 1..Len(gcellsD) : i \notin Range(gcellsD[k])
       /\ \A k \in 1..Len(gcellsA) : Contiguous(gcellsA[k], ACROSS)
       /\ \A k \in 1..Len(gcellsD) : Contiguous(gcellsD[k], DOWN)

(***************************************************************************)
(* Properties of the cursor                                                *)
(***************************************************************************)
\* C15 as stated: every local player action that changes the player's
\* state (the cursor's cell or direction) also emits an outbound event on
\* the client's connection
C15_AsClaimed ==
    [][(px' # px \/ py' # py \/ pdir' # pdir \/ current' # current)
          => wire' # wire]_vars

\* C19 as stated: move_cell(k) followed by move_cell(-k), both with
\* absolute false, returns the cursor to the cell it started from
C19_AsClaimed ==
    [][(/\ nlast.op = "move_cell"
        /\ ~nlast.abs
        /\ nlast'.op = "move_cell"
        /\ ~nlast'.abs
        /\ nlast'.k = 0 - nlast.k)
          => current' = nlast.from]_vars

\* C20: the cell on which move_cell ends (the player's x, y) and the cell
\* that is selected after it are LETTER cells of the grid, for every
\* distance, direction and value of absolute
C20_EndsOnLetter ==
    nlast.op = "move_cell" =>
       /\ OnGrid(px, py)
       /\ gfill[ToIndex(px, py, gw)] = LETTER
       /\ current >= 0
       /\ gfill[current] = LETTER

C20_Witness ==
    /\ nlast.op = "move_cell"
    /\ nlast.k = 1
    /\ ~nlast.abs
    /\ nlast.from = 1
    /\ pdir = ACROSS
    /\ gw = 3
    /\ gh = 2
    /\ gfill[2] = EMPTY
    /\ px = 0
    /\ py = 1
    /\ current = 3

C22_AsClaimed ==
    [][(/\ gw = 5
        /\ gh = 5
        /\ gcellsA = <<<<0, 1, 2, 3, 4>>>>
        /\ gcellsD = <<<<0, 5, 10, 15, 20>>>>
        /\ current = 4
        /\ px = 4
        /\ py = 0
        /\ pdir = ACROSS
        /\ nlast'.op = "move_cell"
        /\ nlast'.k = 1)
          => /\ nlast'.err = "none"
             /\ px' = 0
             /\ py' = (IF nlast'.abs THEN 0 ELSE 1)
             /\ current' = ToIndex(px', py', gw)]_vars

\* C23 as stated: set_cell(x, y) fails with the out-of-bounds error for
\* every (x, y) off the grid, and with the not-navigable error when the
\* target cell is EMPTY
C23_AsClaimed ==
    [][nlast'.op = "set_cell" =>
          IF ~OnGrid(px', py') THEN nlast'.err = "IndexError"
          ELSE (gfill[ToIndex(px', py', gw)] = EMPTY
                  => nlast'.err = "TypeError")]_vars

\* C24 as stated: a select of an off-grid or EMPTY cell that fails is
\* ignored: the player's x, y and direction and the current cell are the
\* same after it as before it
C24_AsClaimed ==
    [][(/\ nlast'.op \in {"set_cell", "left_click"}
        /\ nlast'.err \in {"IndexError", "TypeError"})
          => UNCHANGED <<px, py, pdir, current>>]_vars

\* C25 as stated: switch_direction changes the direction to the other one
\* and leaves the player's x, y and the current cell unchanged; applied
\* twice it restores the original direction
C25_AsClaimed ==
    [][nlast'.op = "switch_direction" =>
          /\ pdir' = Other(pdir)
          /\ UNCHANGED <<px, py, current>>
          /\ nlast.op = "switch_direction" => pdir' = nlast.dir]_vars

\* the cell at place r of the order in which a direction runs over the
\* grid: row by row for ACROSS, column by column for DOWN
CellOfRank(r, dir) ==
    IF dir = ACROSS THEN r ELSE (r % gh) * gw + (r \div gh)

\* the place of cell c in that order
RankOf(c, dir) ==
    IF dir = ACROSS THEN c ELSE (c % gw) * gh + (c \div gw)

\* the LETTER cell that follows cell c in that order, cyclically
NextLetter(c, dir) ==
    LET n == gw * gh
        at(d) == CellOfRank((RankOf(c, dir) + d) % n, dir)
        d == CHOOSE d \in 1..n :
                /\ gfill[at(d)] = LETTER
                /\ \A e \in 1..(d - 1) : gfill[at(e)] = EMPTY
    IN  at(d)

\* C27 as stated: with absolute false, move_cell(1) takes the cursor to the
\* next LETTER cell in row-major order (ACROSS) or column-major order
\* (DOWN), cyclically, so that repeating it visits every LETTER cell; with
\* absolute true a move ACROSS never changes y and a move DOWN never
\* changes x
C27_AsClaimed ==
    [][nlast'.op = "move_cell" =>
          /\ (~nlast'.abs /\ nlast'.k = 1)
                => current' = NextLetter(current, pdir)
          /\ (nlast'.abs /\ pdir = ACROSS) => py' = current \div gw
          /\ (nlast'.abs /\ pdir = DOWN) => px' = current % gw]_vars

\* C30 as stated: after any sequence of cursor operations the player's
\* (x, y) lies on the grid, names a LETTER cell and is the position of the
\* current cell
C30_AsClaimed ==
    nlast.op # "none" =>
       /\ OnGrid(px, py)
       /\ gfill[ToIndex(px, py, gw)] = LETTER
       /\ current = ToIndex(px, py, gw)

\* C28: a call of move_cell from a LETTER cell ends: for every distance,
\* direction and value of absolute the outer loop makes at most
\* |distance| * width * height advances, and the inner loop applies at most
\* one bounding rule per advance
C28_Terminates ==
    mpc # "idle" =>
       /\ msteps <= (IF mk < 0 THEN 0 - mk ELSE mk) * gw * gh
       /\ mfix <= 1
       /\ mpc = "select" => (mdist = 0 /\ OnGrid(mx, my))

C28_Witness ==
    /\ mpc = "select"
    /\ mk = MaxDist
    /\ ~mabs
    /\ pdir = ACROSS
    /\ msteps = MaxDist + 1
    /\ mfix = 1
    /\ gfill[gw - 1] = EMPTY
    /\ mx = 0
    /\ my = 1

\* C31 as stated: set_cell(x, y) on an on-grid LETTER cell succeeds and
\* makes it the current cell, whatever the player's direction and the
\* words of the cell; move_cell and move_word from a selected cell complete
C31_AsClaimed ==
    [][/\ (/\ nlast'.op = "set_cell"
            /\ OnGrid(px', py')
            /\ gfill[ToIndex(px', py', gw)] = LETTER)
              => (nlast'.err = "none" /\ current' = ToIndex(px', py', gw))
       /\ nlast'.op \in {"move_cell", "move_word"} => nlast'.err = "none"]_vars

\* the letters every cell holds are uppercase ASCII letters
UpperOnly(letters) ==
    \A i \in DOMAIN letters :
        \A j \in 1..Len(letters[i]) : IsUpper(letters[i][j])

\* C39: insert_letter with a lowercase letter replaces the letters of the
\* current cell by that letter upper-cased, with an uppercase letter it
\* appends the letter, with a space it clears the cell, and each of them
\* sets the owner of the cell to the local player; remove_letter removes
\* exactly the last character and leaves an empty cell empty; the letters
\* of every cell are uppercase ASCII letters; no cell other than the
\* current one changes
C39_Editing ==
    [][/\ nlast'.op \in {"insert_letter", "on_key"} =>
            LET ch == Keys[nlast'.k]
            IN  /\ gowner'[current] = 1
                /\ ch = " " => gletters'[current] = <<>>
                /\ IsLower(ch) =>
                     /\ Len(gletters'[current]) = 1
                     /\ gletters'[current][1] # ch
                     /\ gletters'[current][1]
                          = AsciiUpper[CHOOSE n \in 1..26 : AsciiLower[n] = ch]
                /\ IsUpper(ch) =>
                     gletters'[current] = gletters[current] \o <<ch>>
                /\ \A i \in GridCells \ {current} :
                     gletters'[i] = gletters[i] /\ gowner'[i] = gowner[i]
       /\ nlast'.op = "remove_letter" =>
            /\ gletters[current] = <<>> => gletters'[current] = <<>>
            /\ gletters[current] # <<>> =>
                 gletters[current]
                   = gletters'[current] \o
                       <<gletters[current][Len(gletters[current])]>>
            /\ gowner' = gowner
            /\ \A i \in GridCells \ {current} : gletters'[i] = gletters[i]
       /\ UpperOnly(gletters')]_vars

\* a rebus of two letters was typed into the current cell and its last
\* letter was removed, after a letter typed into another cell was removed
C39_Witness ==
    /\ nlast.op = "remove_letter"
    /\ current >= 0
    /\ gletters[current] = <<"A">>
    /\ gowner[current] = 1
    /\ \E i \in GridCells \ {current} : gowner[i] = 1 /\ gletters[i] = <<>>

\* the attributes that make up the graph: of a cell its back-references,
\* kind, solution, number and coordinates, of a word its cells, direction
\* and number
GraphAttrs == {"word", "kind", "solution", "number", "x", "y", "cells",
               "direction"}

\* C32: once the puzzle is built, no navigation or editing operation
\* (set_cell, move_cell, move_word, switch_direction, insert_letter,
\* remove_letter) changes the back-references, kind, number or coordinates
\* of a cell or the cells of a word, and none assigns an attribute of the
\* graph: only letters, owner, fill and the drawings are assigned
C32_Frame ==
    [][gstatus = "built" =>
         /\ UNCHANGED <<gw, gh, gfill, gacross, gdown, gwordA, gwordD, gnumber,
                        gcellsA, gcellsD>>
         /\ gattrs' \cap GraphAttrs = {}
         /\ gattrs' \subseteq {"letters", "owner", "fill", "drawings"}]_vars

\* the cursor was moved in the DOWN direction after a letter had been
\* typed and removed: fills, an owner and letters have been assigned
C32_Witness ==
    /\ nlast.op = "move_cell"
    /\ nlast.err = "none"
    /\ pdir = DOWN
    /\ {"fill", "owner", "letters"} \subseteq gattrs
    /\ \E i \in GridCells : gowner[i] = 1

\* C33: for every rectangular grid, square or not, the cell at (x, y) takes
\* its kind and its clue number from position y*width + x of the decoded
\* fill and numbering, there is exactly one cell per (x, y), and to_index
\* and to_position are inverse to each other for 0 <= x < width
C33_AsClaimed ==
    /\ \A x \in 0..(gw - 1), y \in 0..(gh - 1) :
          /\ ToPosition(ToIndex(x, y, gw), gw) = [x |-> x, y |-> y]
          /\ ToIndex(x, y, gw) \in GridCells
    /\ \A i \in GridCells :
          ToIndex(ToPosition(i, gw).x, ToPosition(i, gw).y, gw) = i
    /\ gstatus = "built" =>
          /\ DOMAIN gnumber = GridCells
          /\ \A i \in GridCells : gnumber[i] = Numbers(gacross, gdown, i)
    /\ bstatus # "none" =>
          /\ bstatus = "built"
          /\ \A x \in 0..(gw - 1), y \in 0..(gh - 1) :
                /\ bcells[<<x, y>>].type = gfill[y * gw + x]
                /\ bcells[<<x, y>>].number
                     = Numbers(gacross, gdown, y * gw + x)

\* C34: an event whose kind has no bound handler is reported and dropped
\* without any other change of state: at the server the dispatch loop goes
\* back to its queue with the server alive and the roster, the names, the
\* puzzle and everything sent unchanged; at the client the roster and the
\* player id are unchanged; in both, the event has left the queue, so the
\* next queued event is the one handled next
C34_Dropped ==
    [][/\ (/\ th[DispatchT].pc = "get"
            /\ queue # <<>>
            /\ queue' = Tail(queue)
            /\ Head(queue).event \notin {ECHO, PUZZLE_LOADED, CLIENT_JOINED})
              => /\ th'[DispatchT].pc = "get"
                 /\ salive' /\ salive
                 /\ handlers' = handlers
                 /\ alive' = alive
                 /\ sent' = sent
                 /\ pname' = pname
                 /\ smodel' = smodel
                 /\ dlog'[Head(queue).handler]
                      = Append(dlog[Head(queue).handler], Head(queue).data)
       /\ \A c \in Conn :
            (/\ cq[c] # <<>>
             /\ cq'[c] = Tail(cq[c])
             /\ Head(cq[c]).event \notin {CLIENT_JOINED, ID_ASSIGNED})
              => /\ players' = players
                 /\ peer' = peer
                 /\ clog'[c] = Append(clog[c], [event |-> Head(cq[c]).event,
                                                fn |-> "None"])]_vars

\* the dispatch loop handles the CLIENT_JOINED of the second connection
\* after it has dropped the unbound event of the first
C34_Witness ==
    /\ th[DispatchT].pc = "h_joined"
    /\ th[DispatchT].cur.handler = 2
    /\ Len(dlog[1]) = MaxEmit + 1
    /\ dlog[1][MaxEmit + 1] = MaxEmit + 1
    /\ handlers = <<1, 2>>

\* the events client c has handled so far, in the order of their arrival
Handled(c) == SubSeq(sent[c], 1, cread[c] - Len(cq[c]))

C36_AsClaimed ==
    th[DispatchT].pc = "done" =>
        /\ handlers = <<>>
        /\ \A c \in Conn : (stopped[c] \/ c \in Range(handlers)) => ~alive[c]

\* C37: for each connection that is lost or stopped the server broadcasts
\* CLIENT_EXITED at most once: no connection is sent a second CLIENT_EXITED
\* on behalf of the same handler, also when the handler is stopped by the
\* server and its receive loop fails afterwards
C37_AsClaimed ==
    \A c \in Conn, b \in Conn : Count(c, CLIENT_EXITED, b) <= 1

\* C38: once stop() has returned on a handler, its receive loop puts no
\* further event on the server's queue, also when a complete frame arrives
\* after the stop
C38_AsClaimed ==
    [][\A c \in Conn :
         (stopped[c] /\ Len(queue') > Len(queue))
           => queue'[Len(queue')].handler # c]_vars

====
